---- MODULE Spec2Model ----
(***************************************************************************)
(* Model of src/src/is.cpp: the ICD-9 first-character classifiers          *)
(* icd9IsASingle, icd9IsASingleV, icd9IsASingleE, icd9IsASingleVE and the  *)
(* vectorised wrapper icd9IsA.                                             *)
(*                                                                         *)
(* A C string is a sequence of byte codes ending in NUL; the pointer `s`   *)
(* of the code is a 1-based offset into that sequence.  Reading an offset  *)
(* outside the sequence is undefined in C and unspecified here (function   *)
(* application outside the domain).                                        *)
(***************************************************************************)
EXTENDS Integers, Sequences, FiniteSets, TLC

VARIABLES
    s,          \* argument of a direct call of a single-string classifier
    x,          \* candidate characters (contents of the const char* x)
    calls,      \* per classifier: outcome of its call on (s, x), if made
    sv,         \* icd9IsA: the input vector of strings
    invertArg,  \* icd9IsA: the optional argument, <<>> when omitted
    pc,         \* icd9IsA: position in the function
    invert,     \* icd9IsA: the bound parameter
    len,        \* icd9IsA: local len
    i,          \* icd9IsA: loop index (0-based, as in the code)
    out,        \* icd9IsA: local out (out[k+1] is the code's out[k])
    wr,         \* history: wr[k+1] counts the stores to out[k]
    last,       \* history: scan of the latest icd9IsASingle call of the loop
    result      \* icd9IsA: the returned vector

vars == <<s, x, calls, sv, invertArg, pc, invert, len, i, out, wr, last, result>>

----------------------------------------------------------------------------
(* Bounds *)

MaxStrLen == 3
MaxSetLen == 1
MaxVec == 3

----------------------------------------------------------------------------
(* Character codes compared by the code *)

NUL == 0
SP == 32
UpperV == 86
LowerV == 118
UpperE == 69
LowerE == 101

\* 49 is '1', a character no classifier looks for
Chars == {SP, UpperV, LowerV, UpperE, LowerE, 49}

Strings(n) == UNION {[1..k -> Chars] : k \in 0..n}

Range(f) == {f[k] : k \in DOMAIN f}

\* std::string::c_str() / a string literal: the contents followed by NUL
c_str(str) == Append(str, NUL)

----------------------------------------------------------------------------
(* The single-string classifiers *)

\* slip: `if` for `while`, at most one space is skipped
SkipSpaces_AtMostOne(buf, p) ==
    IF buf[p] = SP THEN p + 1 ELSE p

\* while (*s == ' ') ++s;   -- yields the offset the loop stops at
RECURSIVE SkipSpaces(_, _)
SkipSpaces(buf, p) ==
    IF buf[p] = SP THEN SkipSpaces(buf, p + 1) ELSE p

\* slip: the candidate is compared before the terminator is tested
\* (do { ... } while (*x++)), so NUL matches the terminator of x
RECURSIVE ScanX_TestAfter(_, _, _)
ScanX_TestAfter(c, xbuf, q) ==
    IF c = xbuf[q]
    THEN [ret |-> TRUE, xp |-> q]
    ELSE IF xbuf[q] # NUL
         THEN ScanX_TestAfter(c, xbuf, q + 1)
         ELSE [ret |-> FALSE, xp |-> q]

\* slip: ++x left out of reach, only the first candidate is compared
ScanX_FirstOnly(c, xbuf, q) ==
    IF xbuf[q] # NUL /\ c = xbuf[q]
    THEN [ret |-> TRUE, xp |-> q]
    ELSE [ret |-> FALSE, xp |-> q]

\* while (*x) { if (*s == *x) return true; ++x; } return false;
\* c is *s; yields the returned value and the offset of x the loop stops at
RECURSIVE ScanX(_, _, _)
ScanX(c, xbuf, q) ==
    IF xbuf[q] # NUL
    THEN IF c = xbuf[q]
         THEN [ret |-> TRUE, xp |-> q]
         ELSE ScanX(c, xbuf, q + 1)
    ELSE [ret |-> FALSE, xp |-> q]

icd9IsASingleRun(buf, xbuf) ==
    LET p == SkipSpaces(buf, 1)
        r == ScanX(buf[p], xbuf, 1)
    IN  [ret |-> r.ret, sp |-> p, xp |-> r.xp]

icd9IsASingle(buf, xbuf) == icd9IsASingleRun(buf, xbuf).ret

\* slip: the lower-case letter is not accepted
icd9IsASingleV_UpperOnly(buf) ==
    LET p == SkipSpaces(buf, 1)
    IN  buf[p] = UpperV

icd9IsASingleV(buf) ==
    LET p == SkipSpaces(buf, 1)
    IN  buf[p] = UpperV \/ buf[p] = LowerV

icd9IsASingleE(buf) ==
    LET p == SkipSpaces(buf, 1)
    IN  buf[p] = UpperE \/ buf[p] = LowerE

\* slip: 'e' is missing from the alternatives
icd9IsASingleVE_NoLowerE(buf) ==
    LET p == SkipSpaces(buf, 1)
    IN  buf[p] = UpperV \/ buf[p] = UpperE \/ buf[p] = LowerV

icd9IsASingleVE(buf) ==
    LET p == SkipSpaces(buf, 1)
    IN  buf[p] = UpperV \/ buf[p] = UpperE \/ buf[p] = LowerV \/ buf[p] = LowerE

----------------------------------------------------------------------------
(* icd9IsA, one definition per step of the function *)

InvertDefault == FALSE

\* int len = sv.size(); std::vector<bool> out(len); int i = 0
icd9IsAEntry(v) ==
    [len |-> Len(v), out |-> [k \in 1..Len(v) |-> FALSE], i |-> 0]

\* slip: off by one, i <= len
icd9IsATest_Inclusive(f) == f.i <= f.len

\* i < len
icd9IsATest(f) == f.i < f.len

\* icd9IsASingle(sv[i].c_str(), x)
icd9IsACall(f, v, xs) == icd9IsASingleRun(c_str(v[f.i + 1]), c_str(xs))

\* slip: == for !=
icd9IsABody_Equal(f, v, xs, inv) ==
    [f EXCEPT !.out[f.i + 1] = (inv = icd9IsACall(f, v, xs).ret),
              !.i = f.i + 1]

\* slip: the flag is dropped
icd9IsABody_NoInvert(f, v, xs, inv) ==
    [f EXCEPT !.out[f.i + 1] = icd9IsACall(f, v, xs).ret,
              !.i = f.i + 1]

\* slip: the output is filled from the back
icd9IsABody_Reversed(f, v, xs, inv) ==
    [f EXCEPT !.out[f.len - f.i] = (inv # icd9IsACall(f, v, xs).ret),
              !.i = f.i + 1]

\* slip: a match carries over to the following elements
icd9IsABody_Sticky(f, v, xs, inv) ==
    [f EXCEPT !.out[f.i + 1] =
                  (inv # (icd9IsACall(f, v, xs).ret
                            \/ (f.i > 0 /\ (inv # f.out[f.i])))),
              !.i = f.i + 1]

\* out[i] = invert != (icd9IsASingle(sv[i].c_str(), x)); ++i
icd9IsABody(f, v, xs, inv) ==
    [f EXCEPT !.out[f.i + 1] = (inv # icd9IsACall(f, v, xs).ret),
              !.i = f.i + 1]

RECURSIVE icd9IsALoop(_, _, _, _)
icd9IsALoop(f, v, xs, inv) ==
    IF icd9IsATest(f)
    THEN icd9IsALoop(icd9IsABody(f, v, xs, inv), v, xs, inv)
    ELSE f.out

\* the whole function, as one call
icd9IsA(v, xs, inv) == icd9IsALoop(icd9IsAEntry(v), v, xs, inv)

----------------------------------------------------------------------------
(* Inputs *)

\* candidate sets of the direct calls: every short one, and the three sets
\* the fixed classifiers stand for
SetVv == <<UpperV, LowerV>>
SetEe == <<UpperE, LowerE>>
SetVvEe == <<UpperV, LowerV, UpperE, LowerE>>
Targets == Strings(MaxSetLen) \cup {SetVv, SetEe, SetVvEe}

\* "V10", " E950", "427"
CodeV10 == <<UpperV, 49, 48>>
CodeE950 == <<SP, UpperE, 57, 53, 48>>
Code427 == <<52, 50, 55>>
Example == <<CodeV10, CodeE950, Code427>>

\* strings of the vectors given to icd9IsA, and its candidate sets
\* ("V", "Ee", " 4", "")
Codes == {CodeV10, CodeE950, Code427, <<>>, <<SP, SP>>, <<SP, LowerV>>}
BatchTargets == {<<UpperV>>, SetEe, <<SP, 52>>, <<>>}
Vectors == UNION {[1..n -> Codes] : n \in 0..MaxVec}

Classifiers == {"icd9IsASingle", "icd9IsASingleV", "icd9IsASingleE", "icd9IsASingleVE"}
NoCall == [done |-> FALSE, ret |-> FALSE]
NoScan == [made |-> FALSE, str |-> <<>>, sp |-> 1, xp |-> 1]
Scan(str, r) == [made |-> TRUE, str |-> str, sp |-> r.sp, xp |-> r.xp]

----------------------------------------------------------------------------
(* Direct calls of the single-string classifiers on (s, x) *)

InitSingle ==
    /\ s \in Strings(MaxStrLen)
    /\ x \in Targets
    /\ calls = [f \in Classifiers |-> NoCall]
    /\ sv = <<>>
    /\ invertArg = <<>>
    /\ pc = "start"
    /\ invert = FALSE
    /\ len = 0
    /\ i = 0
    /\ out = <<>>
    /\ wr = <<>>
    /\ last = NoScan
    /\ result = <<>>

batchVars == <<sv, invertArg, pc, invert, len, i, out, wr, result>>

CallSingle ==
    LET r == icd9IsASingleRun(c_str(s), c_str(x))
    IN  /\ calls' = [calls EXCEPT !["icd9IsASingle"] = [done |-> TRUE, ret |-> r.ret]]
        /\ last' = Scan(s, r)
        /\ UNCHANGED <<s, x, batchVars>>

CallV ==
    /\ calls' = [calls EXCEPT !["icd9IsASingleV"] =
                    [done |-> TRUE, ret |-> icd9IsASingleV(c_str(s))]]
    /\ UNCHANGED <<s, x, last, batchVars>>

CallE ==
    /\ calls' = [calls EXCEPT !["icd9IsASingleE"] =
                    [done |-> TRUE, ret |-> icd9IsASingleE(c_str(s))]]
    /\ UNCHANGED <<s, x, last, batchVars>>

CallVE ==
    /\ calls' = [calls EXCEPT !["icd9IsASingleVE"] =
                    [done |-> TRUE, ret |-> icd9IsASingleVE(c_str(s))]]
    /\ UNCHANGED <<s, x, last, batchVars>>

NextSingle == CallSingle \/ CallV \/ CallE \/ CallVE

SpecSingle == InitSingle /\ [][NextSingle]_vars

----------------------------------------------------------------------------
(* One call of icd9IsA(sv, x, invert), step by step *)

Init ==
    /\ sv \in Vectors
    /\ x \in BatchTargets
    /\ invertArg \in {<<>>, <<FALSE>>, <<TRUE>>}
    /\ pc = "start"
    /\ invert = FALSE
    /\ len = 0
    /\ i = 0
    /\ out = <<>>
    /\ wr = <<>>
    /\ last = NoScan
    /\ result = <<>>
    /\ s = <<>>
    /\ calls = [f \in Classifiers |-> NoCall]

Frame == [len |-> len, out |-> out, i |-> i]

Enter ==
    /\ pc = "start"
    /\ invert' = IF invertArg = <<>> THEN InvertDefault ELSE invertArg[1]
    /\ LET f == icd9IsAEntry(sv)
       IN  /\ len' = f.len
           /\ out' = f.out
           /\ i' = f.i
    /\ wr' = [k \in 1..Len(sv) |-> 0]
    /\ pc' = "test"
    /\ UNCHANGED <<s, x, calls, sv, invertArg, last, result>>

LoopTest ==
    /\ pc = "test"
    /\ pc' = IF icd9IsATest(Frame) THEN "body" ELSE "return"
    /\ UNCHANGED <<s, x, calls, sv, invertArg, invert, len, i, out, wr, last, result>>

LoopBody ==
    /\ pc = "body"
    /\ LET f == icd9IsABody(Frame, sv, x, invert)
       IN  /\ out' = f.out
           /\ i' = f.i
    /\ wr' = [wr EXCEPT ![i + 1] = @ + 1]
    /\ last' = Scan(sv[i + 1], icd9IsACall(Frame, sv, x))
    /\ pc' = "test"
    /\ UNCHANGED <<s, x, calls, sv, invertArg, invert, len, result>>

Return ==
    /\ pc = "return"
    /\ result' = out
    /\ pc' = "done"
    /\ UNCHANGED <<s, x, calls, sv, invertArg, invert, len, i, out, wr, last>>

Next == Enter \/ LoopTest \/ LoopBody \/ Return

Spec == Init /\ [][Next]_vars

\* the function runs to completion once called: no step waits on anything
FairSpec == Spec /\ WF_vars(Next)

----------------------------------------------------------------------------
(* Properties of the single-string classifiers (SpecSingle) *)

Single == calls["icd9IsASingle"]
SingleV == calls["icd9IsASingleV"]
SingleE == calls["icd9IsASingleE"]
SingleVE == calls["icd9IsASingleVE"]

\* offsets of str that are preceded by spaces only
AfterSpaces(str) == {p \in 1..Len(str) : \A q \in 1..(p - 1) : str[q] = SP}

AllSpaces(str) == \A p \in 1..Len(str) : str[p] = SP

\* C1: with a non-empty candidate set, icd9IsASingle(s, x) is true exactly
\* when a character remains after the leading spaces of s and it is in x.
C1_FirstCharContract ==
    (Single.done /\ x # <<>>) =>
        (Single.ret <=>
            \E p \in AfterSpaces(s) : s[p] # SP /\ s[p] \in Range(x))

C1_Witness ==
    /\ Single.done /\ Single.ret
    /\ Len(s) = 3 /\ s[1] = SP /\ s[2] # SP
    /\ Len(x) >= 2 /\ s[2] # x[1]

\* C2 as claimed: for s = spaces + c + rest with c in x, space included,
\* icd9IsASingle(s, x) is true.
C2_AnyMemberAfterSpaces ==
    Single.done =>
        ((\E p \in AfterSpaces(s) : s[p] \in Range(x)) => Single.ret)

\* C2 amended: for s = spaces + c + rest with c in x and c not the space
\* character, icd9IsASingle(s, x) is true whatever rest is.
C2_NonSpaceMemberAfterSpaces ==
    Single.done =>
        ((\E p \in AfterSpaces(s) : s[p] \in Range(x) /\ s[p] # SP) => Single.ret)

C2_Witness ==
    /\ Single.done /\ Single.ret
    /\ Len(s) = 3 /\ s[1] = SP /\ s[2] \in Range(x) /\ s[3] \notin Range(x)

\* C3: for a string of spaces only (the empty string included) and any
\* candidate set (one with the space in it and the empty one included),
\* icd9IsASingle(s, x) is false.
C3_AllSpacesFalse ==
    (Single.done /\ AllSpaces(s)) => ~Single.ret

C3_Witness ==
    /\ Single.done /\ ~Single.ret
    /\ Len(s) >= 2 /\ AllSpaces(s) /\ SP \in Range(x)

\* C7: icd9IsASingleVE(s) = icd9IsASingleV(s) \/ icd9IsASingleE(s).
C7_VEIsVOrE ==
    (SingleV.done /\ SingleE.done /\ SingleVE.done) =>
        (SingleVE.ret <=> (SingleV.ret \/ SingleE.ret))

C7_Witness ==
    /\ SingleV.done /\ SingleE.done /\ SingleVE.done
    /\ SingleVE.ret /\ SingleE.ret /\ ~SingleV.ret
    /\ Len(s) >= 2 /\ s[1] = SP

\* C8: the fixed classifiers agree with icd9IsASingle on "Vv", "Ee" and
\* "VvEe", and all three are false on empty and all-space strings.
C8_FixedAgreeWithGeneral ==
    /\ (Single.done /\ SingleV.done /\ x = SetVv) => (SingleV.ret <=> Single.ret)
    /\ (Single.done /\ SingleE.done /\ x = SetEe) => (SingleE.ret <=> Single.ret)
    /\ (Single.done /\ SingleVE.done /\ x = SetVvEe) => (SingleVE.ret <=> Single.ret)
    /\ AllSpaces(s) =>
        /\ SingleV.done => ~SingleV.ret
        /\ SingleE.done => ~SingleE.ret
        /\ SingleVE.done => ~SingleVE.ret

C8_Witness ==
    /\ Single.done /\ SingleV.done /\ x = SetVv
    /\ SingleV.ret /\ Len(s) >= 2 /\ s[1] = SP /\ s[2] = LowerV

----------------------------------------------------------------------------
(* Properties of icd9IsA (Spec, FairSpec) *)

Xor(a, b) == (a /\ ~b) \/ (~a /\ b)

\* the flag the caller asked for
Asked == IF invertArg = <<>> THEN FALSE ELSE invertArg[1]

\* C4: every element of the result is invert XOR icd9IsASingle(sv[i], x),
\* invert being false when omitted; icd9IsA(["V10"," E950","427"], "V") is
\* [true, false, false].
C4_ElementwiseXor ==
    pc = "done" =>
        /\ Len(result) = Len(sv)
        /\ \A k \in 1..Len(sv) :
              result[k] = Xor(Asked, icd9IsASingle(c_str(sv[k]), c_str(x)))
        /\ (sv = Example /\ x = <<UpperV>> /\ invertArg = <<>>) =>
              result = <<TRUE, FALSE, FALSE>>

C4_Witness ==
    /\ pc = "done" /\ sv = Example /\ x = <<UpperV>> /\ invertArg = <<>>
    /\ result = <<TRUE, FALSE, FALSE>>

\* C5: the result has the length of the input and its element i is the
\* classification of input element i; the empty input gives the empty result.
C5_SameLengthAndOrder ==
    pc = "done" =>
        /\ Len(result) = Len(sv)
        /\ DOMAIN result = DOMAIN sv
        /\ sv = <<>> => result = <<>>
        /\ \A k \in 1..Len(sv) : <<result[k]>> = icd9IsA(<<sv[k]>>, x, Asked)

C5_Witness ==
    /\ pc = "done" /\ Len(sv) = 3
    /\ result[1] # result[2] /\ result[3] = result[1]

\* C6: element i of the result with invert = true is the negation of
\* element i of the result with invert = false.
C6_InvertNegates ==
    pc = "done" =>
        \A k \in 1..Len(sv) : result[k] = ~(icd9IsA(sv, x, ~Asked)[k])

C6_Witness ==
    /\ pc = "done" /\ invertArg = <<TRUE>> /\ Len(sv) >= 2
    /\ result[1] /\ ~result[2]

\* C9: a call leaves sv and x unchanged; element i of the result depends on
\* (sv[i], x, invert) only; a second call with the same arguments returns the
\* same; and icd9IsA(a ++ b) = icd9IsA(a) ++ icd9IsA(b).
C9_Pure ==
    pc = "done" =>
        /\ result = icd9IsA(sv, x, Asked)
        /\ \A k \in 1..Len(sv) : <<result[k]>> = icd9IsA(<<sv[k]>>, x, Asked)
        /\ \A n \in 0..Len(sv) :
              result = icd9IsA(SubSeq(sv, 1, n), x, Asked)
                         \o icd9IsA(SubSeq(sv, n + 1, Len(sv)), x, Asked)

C9_Frame == sv' = sv /\ x' = x /\ invertArg' = invertArg

C9_SideEffectFree == []C9_Pure /\ [][C9_Frame]_vars

C9_Witness ==
    /\ pc = "done" /\ Len(sv) = 3 /\ invert
    /\ ~result[1] /\ result[2]

\* C10: the scans of icd9IsASingle stop at or before the terminators of s
\* and of x; the loop of icd9IsA accesses out[i] and sv[i] with i in
\* 0..len-1 only, i going up one at a time from 0, stores each element
\* exactly once, runs len times, and the call returns.
C10_Safe ==
    /\ last.made =>
          /\ last.sp \in 1..(Len(last.str) + 1)
          /\ last.xp \in 1..(Len(x) + 1)
    /\ pc # "start" => len = Len(sv) /\ i \in 0..len
    /\ pc = "body" => i \in 0..(len - 1)
    /\ pc # "start" =>
          \A k \in 1..Len(sv) : wr[k] = IF k <= i THEN 1 ELSE 0
    /\ pc \in {"return", "done"} => i = len

C10_Step == i' = i \/ (pc = "body" /\ i' = i + 1)

C10_TerminatesInBounds ==
    /\ []C10_Safe
    /\ [][C10_Step]_vars
    /\ <>(pc = "done")

C10_Witness ==
    /\ pc = "done" /\ len = 3 /\ i = 3
    /\ last.made /\ last.sp = 3 /\ last.xp = 3

====
